---- MODULE Spec2Model ----
(***************************************************************************)
(* A model of the `loaned` crate: Loaned / LoanedMut handles over owned,   *)
(* heap-indirect payloads, the references minted from them, the Place      *)
(* destinations, take!/drop!, merge, loan_with, the conversions of          *)
(* collections of handles, and the destruction-time diagnostic.            *)
(*                                                                         *)
(* What rustc guarantees statically is modelled as guards taken from the   *)
(* signatures: a region 't is an identifier that the client ends once      *)
(* (EndRegion); a reference &'t is usable while 't has not ended; a        *)
(* `&'t mut` borrow of a destination locks it until 't has ended; a value  *)
(* moved out (self by value) cannot be used again.  A handle's region      *)
(* parameter is the set of regions it has to outlast: Loaned and LoanedMut *)
(* are contravariant in 't, so the parameter can only grow.                *)
(***************************************************************************)
EXTENDS Naturals, Sequences, FiniteSets, TLC

\* ---------------------------------------------------------------- bounds
MaxHandles == 3
MaxLoans   == 2
MaxAddr    == 3
MaxRegion  == 2
MaxSlots   == 1
MaxVal     == 1
MaxWrites  == 2
Arity      == 2

Hid    == 1..MaxHandles
Addr   == 1..MaxAddr
Region == 1..MaxRegion
Sid    == 1..MaxSlots
Val    == 0..MaxVal
\* The origins of references: the handle h made by loan, and for the part i
\* of the aggregate of the handle h made by loan_with, h + (i - 1) * MaxHandles.
Oid    == 1..(Arity * MaxHandles)

VARIABLES
  heap,       \* Addr -> the pointee of an indirect container (Box<_> / &mut _)
  handles,    \* Hid  -> a Loaned / LoanedMut value
  refs,       \* the references minted by loan / borrow that are still usable
  nreg,       \* number of regions the client has named so far
  ended,      \* the regions that have ended
  slots,      \* Sid  -> a destination (local variable) of the client
  panicking,  \* std::thread::panicking()
  wlog,       \* Oid  -> the writes made through references minted from it
  featureStd  \* cfg(feature = "std") of the build

vars == <<heap, handles, refs, nreg, ended, slots, panicking, wlog, featureStd>>

\* ------------------------------------------------------------ the payloads
\* A payload is a tuple of components; a component is one indirect container:
\*   k = "box"  : Box<_>            (owns its pointee)
\*   k = "leak" : MayLeak<Box<_>>   (ManuallyDrop around a Box)
\*   k = "ref"  : &'a mut _         (pointee owned elsewhere)
\* a = address of the pointee, o = the origin of the references to it: the
\* handle created over it by loan/new, or its part of a loan_with aggregate
\* (0 for a value that never was in a handle).
Kinds == {"box", "leak", "ref"}

Comp(k, a, o) == [k |-> k, a |-> a, o |-> o]

KindsOf(val) == [i \in 1..Len(val) |-> val[i].k]

AddrsOf(val) == {val[i].a : i \in 1..Len(val)}

\* Loanable::NEEDS_DROP of a container type.
NEEDS_DROP_MayLeakTrue(k) == k \in {"box", "leak"}

NEEDS_DROP(k) == k = "box"

\* core::mem::needs_drop::<T>() of a payload type T (a tuple needs drop when a
\* field does).
needs_drop(val) == \E i \in 1..Len(val) : NEEDS_DROP(val[i].k)

\* ---------------------------------------------------------------- the heap
\* st: "free" (never allocated), "live", "freed" (its owner's cleanup ran),
\* "static" (owned outside the model).  v0: the value it was allocated with.
\* drops: how many times its owner's cleanup ran.
FreeCell == [st |-> "free", val |-> 0, v0 |-> 0, drops |-> 0]

\* Box::new(v) at address a / a pointee that some longer-lived owner keeps.
Alloc(hp, a, k, v) ==
  [hp EXCEPT ![a] = [st |-> IF k = "ref" THEN "static" ELSE "live",
                     val |-> v, v0 |-> v, drops |-> 0]]

FreshIn(hp) == {a \in Addr : hp[a].st = "free"}

NextIn(hp) == CHOOSE a \in FreshIn(hp) : \A b \in FreshIn(hp) : a <= b

FreshAddrs == FreshIn(heap)

NextAddr == NextIn(heap)

\* The drop glue of one component: a Box frees its pointee (whose content is
\* no longer defined), a ManuallyDrop and a reference do nothing.
DropComp(hp, c) ==
  IF NEEDS_DROP(c.k)
    THEN [hp EXCEPT ![c.a] = [st |-> "freed", val |-> 0, v0 |-> 0,
                              drops |-> IF hp[c.a].drops < 2
                                          THEN hp[c.a].drops + 1 ELSE 2]]
    ELSE hp

RECURSIVE DropComps(_, _, _)
DropComps(hp, val, i) ==
  IF i > Len(val) THEN hp ELSE DropComps(DropComp(hp, val[i]), val, i + 1)

\* ptr::drop_in_place / the end of scope of an owned value.  The drop glue
\* of a payload is taken to return normally: a payload whose destructor
\* panics is outside this model.
drop_in_place_Forget(hp, val) == hp

drop_in_place(hp, val) == DropComps(hp, val, 1)

\* ------------------------------------------------------------- the handles
\* st: "none" (not created), "live" (Created), "consumed" (its payload was
\* moved out by into_raw / into_inner: Placed), "dropped" (Drop::drop ran:
\* Destroyed without placement).  diag: the destruction diagnostic fired.
\* how: the operation that consumed it.  ret: what take! returned (the
\* pointee values read through the returned payload).  born: for a handle
\* made by merge, how many writes had been made when it was made.  idx: for
\* a handle that went into an aggregate or a collection, its position there.
NoHandle ==
  [st |-> "none", kind |-> "LoanedMut", val |-> <<>>, rg |-> {}, diag |-> FALSE,
   how |-> "", ret |-> <<>>, born |-> 0, idx |-> 0]

\* Loaned::from_raw / LoanedMut::from_inner.
from_raw(kind, val, rg) ==
  [st |-> "live", kind |-> kind, val |-> val, rg |-> rg, diag |-> FALSE,
   how |-> "", ret |-> <<>>, born |-> 0, idx |-> 0]

FreshHandles == {h \in Hid : handles[h].st = "none"}

\* The handles made by loan / new (the others are made from handles).
Loans == {h \in Hid : handles[h].st # "none" /\ \E i \in 1..Len(handles[h].val) :
                                                  handles[h].val[i].o = h}

NextHandle == CHOOSE h \in FreshHandles : \A g \in FreshHandles : h <= g

\* The condition of the panic! in Drop::drop.  The check of Loaned is compiled
\* only with cfg(feature = "std"); the one of LoanedMut always.
Diagnostic_NoPanickingCheck(hr) ==
  /\ needs_drop(hr.val)
  /\ (hr.kind = "LoanedMut" \/ featureStd)

Diagnostic_PanickingInverted(hr) ==
  /\ needs_drop(hr.val)
  /\ panicking
  /\ (hr.kind = "LoanedMut" \/ featureStd)

Diagnostic(hr) ==
  /\ needs_drop(hr.val)
  /\ ~panicking
  /\ (hr.kind = "LoanedMut" \/ featureStd)

\* Drop::drop of a handle: the payload is not dropped (it is leaked).
Handle_drop(hr) == [hr EXCEPT !.st = "dropped", !.diag = Diagnostic(hr)]

\* Loaned::into_raw / LoanedMut::into_inner: self is wrapped in ManuallyDrop,
\* so Drop::drop does not run, and the payload is read out.
into_raw_NoManuallyDrop(hr) == [Handle_drop(hr) EXCEPT !.st = "consumed"]

into_raw_BySharedRef(hr) == hr

into_raw(hr) == [hr EXCEPT !.st = "consumed"]

\* From<Loaned<'t, T>> for LoanedMut<'t, T>: the same payload and region.
From_Loaned_AnyRegion(hr) == from_raw("LoanedMut", into_raw(hr).val, {})

From_Loaned(hr) == from_raw("LoanedMut", into_raw(hr).val, hr.rg)

\* panic! starts unwinding: some handle's diagnostic fired in this step.
Fired(hs0, hs1) == \E h \in Hid : hs1[h].diag /\ ~hs0[h].diag

\* ---------------------------------------------------------- the destinations
\* kind: "same" (a T), "option" (an Option<T>), "uninit" (a MaybeUninit<T>).
\* full: the slot holds a T (always for "same"; Some for "option"; written for
\* "uninit").  lock: the regions of the `&'t mut` borrow taken by the last
\* placement.  src / old / oldFull / at record the last placement: the handle
\* delivered, the occupant it replaced, and how many writes had been made
\* through the handle's references by then.
NoSlot ==
  [st |-> "none", kind |-> "same", full |-> FALSE, val |-> <<>>, lock |-> {},
   src |-> 0, old |-> <<>>, oldFull |-> FALSE, at |-> 0]

FreshSlots == {d \in Sid : slots[d].st = "none"}

NextSlot == CHOOSE d \in FreshSlots : \A e \in FreshSlots : d <= e

\* What dropping the slot's current occupant frees.
Occupant(sl) == IF sl.full /\ sl.kind # "uninit" THEN sl.val ELSE <<>>

Delivered_KeepsOccupant(sl, raw, rg, h) ==
  [sl EXCEPT !.full = TRUE, !.lock = rg, !.src = h,
             !.old = IF sl.full THEN sl.val ELSE <<>>, !.oldFull = sl.full]

Delivered_NotBorrowed(sl, raw, rg, h) ==
  [sl EXCEPT !.full = TRUE, !.val = raw, !.lock = {}, !.src = h,
             !.old = IF sl.full THEN sl.val ELSE <<>>, !.oldFull = sl.full]

Delivered(sl, raw, rg, h) ==
  [sl EXCEPT !.full = TRUE, !.val = raw, !.lock = rg, !.src = h,
             !.old = IF sl.full THEN sl.val ELSE <<>>, !.oldFull = sl.full]

\* impl Place<'t, T> for MaybeUninit<T>: *place = loaned.into_raw().into().
Place_MaybeUninit_DropsDelivered(hp, sl, raw, rg, h) ==
  [heap |-> drop_in_place(hp, raw), slot |-> Delivered(sl, raw, rg, h)]

Place_MaybeUninit(hp, sl, raw, rg, h) ==
  [heap |-> hp, slot |-> Delivered(sl, raw, rg, h)]

\* impl Place<'t, T> for T: drop_in_place(ptr); ptr.cast().write(raw).
Place_T_DropsDelivered(hp, sl, raw, rg, h) ==
  [heap |-> drop_in_place(drop_in_place(hp, sl.val), raw),
   slot |-> Delivered(sl, raw, rg, h)]

Place_T_KeepsOld(hp, sl, raw, rg, h) ==
  [heap |-> hp, slot |-> Delivered(sl, raw, rg, h)]

Place_T(hp, sl, raw, rg, h) ==
  [heap |-> drop_in_place(hp, sl.val), slot |-> Delivered(sl, raw, rg, h)]

\* _maybe_uninit_some / quiet_some: Some(x) without moving x as a T.
maybe_uninit_some(raw) == [full |-> TRUE, val |-> raw]

\* impl Place<'t, T> for Option<T>: drop_in_place(ptr); write(Some(raw)).
Place_Option_NoDrop(hp, sl, raw, rg, h) ==
  [heap |-> hp,
   slot |-> Delivered(sl, maybe_uninit_some(raw).val, rg, h)]

Place_Option(hp, sl, raw, rg, h) ==
  [heap |-> drop_in_place(hp, Occupant(sl)),
   slot |-> [Delivered(sl, maybe_uninit_some(raw).val, rg, h)
               EXCEPT !.full = maybe_uninit_some(raw).full]]

\* The Place implementation the destination's type selects.
Place_place(hp, sl, raw, rg, h) ==
  CASE sl.kind = "same"   -> Place_T(hp, sl, raw, rg, h)
    [] sl.kind = "option" -> Place_Option(hp, sl, raw, rg, h)
    [] sl.kind = "uninit" -> Place_MaybeUninit(hp, sl, raw, rg, h)

\* ------------------------------------------------------------- the writes
\* `*r = v` through a unique reference, `fetch_add(1)` through any reference.
Ops == {<<"set", v>> : v \in Val} \cup {<<"add", 1>>}

ApplyOp(v, op) == IF op[1] = "set" THEN op[2] ELSE (v + op[2]) % (MaxVal + 1)

RECURSIVE ApplyOps(_, _, _)
ApplyOps(v, ops, i) ==
  IF i > Len(ops) THEN v ELSE ApplyOps(ApplyOp(v, ops[i]), ops, i + 1)

RECURSIVE SumLen(_, _)
SumLen(f, S) ==
  IF S = {} THEN 0
  ELSE LET x == CHOOSE y \in S : TRUE IN Len(f[x]) + SumLen(f, S \ {x})

TotalWrites == SumLen(wlog, Oid)

\* -------------------------------------------------------------------- Init
Init ==
  /\ heap = [a \in Addr |-> FreeCell]
  /\ handles = [h \in Hid |-> NoHandle]
  /\ refs = {}
  /\ nreg = 0
  /\ ended = {}
  /\ slots = [d \in Sid |-> NoSlot]
  /\ panicking = FALSE
  /\ wlog = [o \in Oid |-> <<>>]
  /\ featureStd \in BOOLEAN

\* -------------------------------------------------------- creating handles
\* Loaned::loan(value) / LoanedMut::loan(value), value = Box::new(v) etc.:
\* mints a reference to the pointee for a region 't the caller names.
Loan(kind, k, v) ==
  /\ ~panicking
  /\ FreshHandles # {} /\ FreshAddrs # {} /\ nreg < MaxRegion
  /\ Cardinality(Loans) < MaxLoans
  /\ LET h == NextHandle
         a == NextAddr
         t == nreg + 1
     IN /\ heap' = Alloc(heap, a, k, v)
        /\ handles' = [handles EXCEPT ![h] = from_raw(kind, <<Comp(k, a, h)>>, {t})]
        /\ refs' = refs \cup {[a |-> a, rg |-> t, mut |-> kind = "LoanedMut", o |-> h]}
        /\ nreg' = t
  /\ UNCHANGED <<ended, slots, panicking, wlog, featureStd>>

\* Loaned::new(value) / LoanedMut::new(value): no reference is produced.
New(kind, k, v) ==
  /\ ~panicking
  /\ FreshHandles # {} /\ FreshAddrs # {}
  /\ Cardinality(Loans) < MaxLoans
  /\ LET h == NextHandle
         a == NextAddr
     IN /\ heap' = Alloc(heap, a, k, v)
        /\ handles' = [handles EXCEPT ![h] = from_raw(kind, <<Comp(k, a, h)>>, {})]
  /\ UNCHANGED <<refs, nreg, ended, slots, panicking, wlog, featureStd>>

\* &*(&**self.inner.as_ref() as *const _): a reference to the pointee of the
\* handle's container.
Loaned_borrow_Elsewhere(hr, t) ==
  [a |-> CHOOSE b \in Addr : b # hr.val[1].a, rg |-> t, mut |-> FALSE,
   o |-> hr.val[1].o]

Loaned_borrow(hr, t) ==
  [a |-> hr.val[1].a, rg |-> t, mut |-> FALSE, o |-> hr.val[1].o]

\* Loaned::borrow(&self) -> &'t T::Target.  The handle is only borrowed, so
\* its own type does not change; as Loaned<'x, T> is a subtype of
\* Loaned<'t, T> for every 't that outlives 'x (the _contravariant field),
\* the call type-checks with any region t for 't.
Borrow(h, t) ==
  /\ ~panicking
  /\ handles[h].st = "live" /\ handles[h].kind = "Loaned"
  /\ Len(handles[h].val) = 1
  /\ t \in Region /\ t <= nreg + 1 /\ t \notin ended
  /\ refs' = refs \cup {Loaned_borrow(handles[h], t)}
  /\ nreg' = IF t > nreg THEN t ELSE nreg
  /\ UNCHANGED <<heap, handles, ended, slots, panicking, wlog, featureStd>>

\* A write through a usable reference.  A use of a reference whose pointee
\* was freed has no defined behaviour and is given no transition.
WriteRef(r, op) ==
  /\ ~panicking
  /\ r \in refs /\ r.rg \notin ended
  /\ heap[r.a].st \in {"live", "static"}
  /\ r.mut \/ op[1] = "add"
  /\ TotalWrites < MaxWrites
  /\ heap' = [heap EXCEPT ![r.a].val = ApplyOp(@, op)]
  /\ wlog' = [wlog EXCEPT ![r.o] = Append(@, op)]
  /\ UNCHANGED <<handles, refs, nreg, ended, slots, panicking, featureStd>>

\* The region t ends: its references are used no more.
EndRegion(t) ==
  /\ t \in 1..nreg /\ t \notin ended
  /\ ended' = ended \cup {t}
  /\ refs' = {r \in refs : r.rg # t}
  /\ UNCHANGED <<heap, handles, nreg, slots, panicking, wlog, featureStd>>

\* ------------------------------------------------------- the destinations
\* A local of the client: `let mut x = Box::new(v)`, `let mut x = None`,
\* `let mut x = Some(Box::new(v))`, `let mut x = MaybeUninit::uninit()`.
NewSlot(kind, full, k, v) ==
  /\ ~panicking
  /\ FreshSlots # {}
  /\ full => FreshAddrs # {}
  /\ (kind = "same") => full
  /\ (kind = "uninit") => ~full
  /\ LET d == NextSlot
         a == NextAddr
     IN /\ heap' = IF full THEN Alloc(heap, a, k, v) ELSE heap
        /\ slots' = [slots EXCEPT ![d] =
                       [NoSlot EXCEPT !.st = "live", !.kind = kind, !.full = full,
                                      !.val = IF full THEN <<Comp(k, a, 0)>> ELSE <<>>]]
  /\ UNCHANGED <<handles, refs, nreg, ended, panicking, wlog, featureStd>>

\* The destination has the type Place<'t, T> is implemented for.
Fits(sl, val) == sl.full => KindsOf(sl.val) = KindsOf(val)

\* The handle as the LoanedMut that Place::place receives: Loaned::place
\* passes self.into(), LoanedMut::place passes self.
AsLoanedMut(hr) == IF hr.kind = "Loaned" THEN From_Loaned(hr) ELSE hr

\* Place::place(loaned, place) on the handle hr: the handle consumed and the
\* destination written.
Placed(hp, hr, sl, h, how) ==
  LET raw == into_raw(AsLoanedMut(hr))
      res == Place_place(hp, sl, raw.val, hr.rg, h)
  IN [handle |-> [raw EXCEPT !.kind = hr.kind, !.how = how],
      heap   |-> res.heap,
      slot   |-> res.slot]

\* Loaned::place / LoanedMut::place (self, place: &'t mut impl Place<'t, T>):
\* the destination is mutably borrowed for the handle's region.
Place(h, d) ==
  /\ ~panicking
  /\ handles[h].st = "live"
  /\ slots[d].st = "live" /\ slots[d].lock \subseteq ended
  /\ Fits(slots[d], handles[h].val)
  /\ LET res == Placed(heap, handles[h], slots[d], h, "place")
     IN /\ handles' = [handles EXCEPT ![h] = res.handle]
        /\ heap' = res.heap
        /\ slots' = [slots EXCEPT ![d] = [res.slot EXCEPT !.at = Len(wlog[h])]]
        /\ panicking' = (panicking \/ Fired(handles, handles'))
  /\ UNCHANGED <<refs, nreg, ended, wlog, featureStd>>

\* What a read through the payload val sees: the pointee values.
Read(hp, val) == [i \in 1..Len(val) |-> hp[val[i].a].val]

\* __take(loaned, &'t mut ()): the payload is placed into a fresh
\* MaybeUninit, which is read back with assume_init.
take(hp, hr, h, how) ==
  LET res == Placed(hp, hr, [NoSlot EXCEPT !.st = "live", !.kind = "uninit"],
                    h, how)
  IN [handle |-> res.handle, heap |-> res.heap, value |-> res.slot.val]

\* take!(loaned): 't has to fit in the borrow of a local of the macro's
\* block, so it has ended.  The payload becomes a plain value of the client.
Take(h) ==
  /\ ~panicking
  /\ handles[h].st = "live" /\ handles[h].rg \subseteq ended
  /\ LET res == take(heap, handles[h], h, "take")
     IN /\ handles' = [handles EXCEPT ![h] =
                         [res.handle EXCEPT !.ret = Read(res.heap, res.value)]]
        /\ heap' = res.heap
        /\ panicking' = (panicking \/ Fired(handles, handles'))
  /\ UNCHANGED <<refs, nreg, ended, slots, wlog, featureStd>>

\* drop!(loaned): take, then loaned_value is dropped at the end of the block.
DropMacro(h) ==
  /\ ~panicking
  /\ handles[h].st = "live" /\ handles[h].rg \subseteq ended
  /\ LET res == take(heap, handles[h], h, "drop")
     IN /\ handles' = [handles EXCEPT ![h] = res.handle]
        /\ heap' = drop_in_place(res.heap, res.value)
        /\ panicking' = (panicking \/ Fired(handles, handles'))
  /\ UNCHANGED <<refs, nreg, ended, slots, wlog, featureStd>>

\* A destination goes out of scope (also while unwinding); it cannot while
\* it is borrowed.
DropSlot(d) ==
  /\ slots[d].st = "live" /\ slots[d].lock \subseteq ended
  /\ heap' = drop_in_place(heap, Occupant(slots[d]))
  /\ slots' = [slots EXCEPT ![d] = [NoSlot EXCEPT !.st = "gone"]]
  /\ UNCHANGED <<handles, refs, nreg, ended, panicking, wlog, featureStd>>

\* ------------------------------------------------------------ conversion
\* LoanedMut::from(loaned): the Loaned is consumed, the LoanedMut has its
\* payload and its region.
Convert(h) ==
  /\ ~panicking
  /\ handles[h].st = "live" /\ handles[h].kind = "Loaned"
  /\ FreshHandles # {}
  /\ LET g == NextHandle
     IN handles' = [handles EXCEPT
                      ![h] = [into_raw(handles[h]) EXCEPT !.how = "into"],
                      ![g] = From_Loaned(handles[h])]
  /\ panicking' = (panicking \/ Fired(handles, handles'))
  /\ UNCHANGED <<heap, refs, nreg, ended, slots, wlog, featureStd>>

\* ------------------------------------------------------------------ merge
\* The fields of the aggregate `value` handed to merge: a field of kind
\* "same" holds a T (ks[i] = "same": Box::new(0) or the like, of the type of
\* the handle it is to receive), one of kind "uninit" is a MaybeUninit<T>
\* (as in the From impls of tuples).
FieldKinds == {"same", "uninit"}

OldKind(asg, i) == IF asg[i] = 0 THEN "box" ELSE handles[asg[i]].val[1].k

RECURSIVE MkFields(_, _, _, _, _)
MkFields(hp, ks, asg, i, acc) ==
  IF i > Len(ks) THEN [heap |-> hp, fields |-> acc]
  ELSE IF ks[i] = "same"
    THEN LET a == NextIn(hp)
         IN MkFields(Alloc(hp, a, OldKind(asg, i), 0), ks, asg, i + 1,
                     Append(acc, [NoSlot EXCEPT !.st = "live", !.kind = "same",
                                    !.full = TRUE,
                                    !.val = <<Comp(OldKind(asg, i), a, 0)>>]))
    ELSE MkFields(hp, ks, asg, i + 1,
                  Append(acc, [NoSlot EXCEPT !.st = "live", !.kind = "uninit"]))

\* Merge::place / MergeMut::place(loaned, place), for each field the closure
\* places a handle into, in order: Place::place of the field's type.
RECURSIVE MergePlaces_DropsPlaced(_, _, _, _, _)
MergePlaces_DropsPlaced(hp, hs, fs, asg, i) ==
  IF i > Len(fs) THEN [heap |-> hp, handles |-> hs, fields |-> fs]
  ELSE IF asg[i] = 0 THEN MergePlaces_DropsPlaced(hp, hs, fs, asg, i + 1)
  ELSE LET res == Placed(hp, hs[asg[i]], fs[i], asg[i], "merge")
       IN MergePlaces_DropsPlaced(drop_in_place(res.heap, hs[asg[i]].val),
                                  [hs EXCEPT ![asg[i]] = [res.handle EXCEPT !.idx = i]],
                                  [fs EXCEPT ![i] = res.slot], asg, i + 1)

RECURSIVE MergePlaces(_, _, _, _, _)
MergePlaces(hp, hs, fs, asg, i) ==
  IF i > Len(fs) THEN [heap |-> hp, handles |-> hs, fields |-> fs]
  ELSE IF asg[i] = 0 THEN MergePlaces(hp, hs, fs, asg, i + 1)
  ELSE LET res == Placed(hp, hs[asg[i]], fs[i], asg[i], "merge")
       IN MergePlaces(res.heap, [hs EXCEPT ![asg[i]] = [res.handle EXCEPT !.idx = i]],
                      [fs EXCEPT ![i] = res.slot], asg, i + 1)

RECURSIVE Concat(_, _)
Concat(fs, i) == IF i > Len(fs) THEN <<>> ELSE fs[i].val \o Concat(fs, i + 1)

\* The region 't of the aggregate: Merge<'t, 'i>::place takes Loaned<'t, T>,
\* so 't outlives the region of every handle placed.
MergedRegion_First(hs, asg) ==
  LET i == CHOOSE j \in DOMAIN asg : asg[j] # 0 IN hs[asg[i]].rg

MergedRegion(hs, asg) == UNION {hs[asg[i]].rg : i \in {j \in DOMAIN asg : asg[j] # 0}}

\* Loaned::merge / LoanedMut::merge(value, f), f placing the handle asg[i]
\* into field i of the aggregate (each field at most once: the field is
\* borrowed for the whole of 'i).
Merge(kind, ks, asg) ==
  /\ ~panicking
  /\ FreshHandles # {}
  /\ \E i \in DOMAIN asg : asg[i] # 0
  /\ \A i, j \in DOMAIN asg : asg[i] # 0 /\ asg[i] = asg[j] => i = j
  /\ \A i \in DOMAIN asg :
       /\ asg[i] # 0 => /\ handles[asg[i]].st = "live"
                        /\ handles[asg[i]].kind = kind
       /\ ks[i] = "uninit" => asg[i] # 0
       /\ ks[i] = "same" /\ asg[i] # 0 => Len(handles[asg[i]].val) = 1
  /\ Cardinality({i \in DOMAIN ks : ks[i] = "same"}) <= Cardinality(FreshAddrs)
  /\ LET g   == NextHandle
         mk  == MkFields(heap, ks, asg, 1, <<>>)
         res == MergePlaces(mk.heap, handles, mk.fields, asg, 1)
     IN /\ heap' = res.heap
        /\ handles' = [res.handles EXCEPT
                         ![g] = [from_raw(kind, Concat(res.fields, 1),
                                          MergedRegion(handles, asg))
                                   EXCEPT !.born = TotalWrites]]
        /\ panicking' = (panicking \/ Fired(handles, handles'))
  /\ UNCHANGED <<refs, nreg, ended, slots, wlog, featureStd>>

\* ------------------------------------------------- structural conversions
\* From<[Loaned<T>; N]>, From<Vec<Loaned<T>>>, From<Box<Loaned<T>>> (and the
\* same for LoanedMut): the collection of handles is reinterpreted as the
\* collection of their payloads.  The tuples go through merge (see Merge
\* with MaybeUninit fields only).
Collections == {"array", "vec", "box"}

\* ManuallyDrop::new(value) / Box::into_raw(value): the handles in the
\* collection are not dropped.
ManuallyDrop_new_Dropped(hr) == [Handle_drop(hr) EXCEPT !.st = "consumed"]

ManuallyDrop_new(hr) == [hr EXCEPT !.st = "consumed"]

\* The payloads of the handles hs[i..], in order.
RECURSIVE Payloads(_, _)
Payloads(hs, i) ==
  IF i > Len(hs) THEN <<>> ELSE handles[hs[i]].val \o Payloads(hs, i + 1)

\* The handles hs as a collection: a Box and a Vec own an allocation that
\* holds them, an array holds them inline.
Buffer(coll, a) == IF coll = "array" THEN <<>> ELSE <<Comp("box", a, 0)>>

Handle_from(kind, coll, hs) ==
  /\ ~panicking
  /\ FreshHandles # {}
  /\ coll \in Collections
  /\ coll # "array" => FreshAddrs # {}
  /\ coll = "box" => Len(hs) = 1
  /\ \A i, j \in DOMAIN hs : hs[i] = hs[j] => i = j
  /\ \A i \in DOMAIN hs : handles[hs[i]].st = "live" /\ handles[hs[i]].kind = kind
  /\ LET g == NextHandle
         a == NextAddr
     IN /\ heap' = IF coll = "array" THEN heap ELSE Alloc(heap, a, "box", 0)
        /\ handles' = [h \in Hid |->
              IF h = g
                THEN from_raw(kind, Buffer(coll, a) \o Payloads(hs, 1),
                              UNION {handles[hs[i]].rg : i \in DOMAIN hs})
              ELSE IF \E i \in DOMAIN hs : hs[i] = h
                THEN [ManuallyDrop_new(handles[h]) EXCEPT
                        !.how = "from",
                        !.idx = CHOOSE i \in DOMAIN hs : hs[i] = h]
              ELSE handles[h]]
        /\ panicking' = (panicking \/ Fired(handles, handles'))
  /\ UNCHANGED <<refs, nreg, ended, slots, wlog, featureStd>>

\* -------------------------------------------------------------- loan_with
\* The origin of part i of the aggregate of the handle h.
PartOrigin(h, i) == h + (i - 1) * MaxHandles

\* The aggregate `value` handed to loan_with: a tuple of Arity boxes.
RECURSIVE MkParts(_, _, _, _, _)
MkParts(hp, h, vs, i, acc) ==
  IF i > Len(vs) THEN [heap |-> hp, val |-> acc]
  ELSE LET a == NextIn(hp)
       IN MkParts(Alloc(hp, a, "box", vs[i]), h, vs, i + 1,
                  Append(acc, Comp("box", a, PartOrigin(h, i))))

\* LoanWith::loan / LoanWithMut::loan(&ab.i) and LoanWithMut::loan_mut
\* (&mut ab.i): a reference for 't to the pointee of the part.
LoanWith_loan_WholeAggregate(val, i, t, mode) ==
  [a |-> val[1].a, rg |-> t, mut |-> mode = "mut", o |-> val[i].o]

LoanWith_loan(val, i, t, mode) ==
  [a |-> val[i].a, rg |-> t, mut |-> mode = "mut", o |-> val[i].o]

\* How the closure of loan_with loans a part: not at all, by loan, by
\* loan_mut (LoanWithMut only).
Modes == {"none", "shared", "mut"}

\* Loaned::loan_with / LoanedMut::loan_with(value, f): f mints references for
\* 't into parts of the aggregate (each part is borrowed for the whole of 'i,
\* so at most one loan_mut of it), the handle holds the whole aggregate.
LoanWith(kind, vs, ms) ==
  /\ ~panicking
  /\ FreshHandles # {} /\ nreg < MaxRegion
  /\ Cardinality(FreshAddrs) >= Len(vs)
  /\ Cardinality(Loans) < MaxLoans
  /\ \A i \in DOMAIN ms : ms[i] = "mut" => kind = "LoanedMut"
  /\ LET h  == NextHandle
         t  == nreg + 1
         mk == MkParts(heap, h, vs, 1, <<>>)
     IN /\ heap' = mk.heap
        /\ refs' = refs \cup {LoanWith_loan(mk.val, i, t, ms[i]) :
                               i \in {j \in DOMAIN ms : ms[j] # "none"}}
        /\ handles' = [handles EXCEPT ![h] = from_raw(kind, mk.val, {t})]
        /\ nreg' = t
  /\ UNCHANGED <<ended, slots, panicking, wlog, featureStd>>

\* ------------------------------------------------------------ destruction
\* A handle goes out of scope without having been placed (also while
\* unwinding): Drop::drop.
DropHandle(h) ==
  /\ handles[h].st = "live"
  /\ handles' = [handles EXCEPT ![h] = Handle_drop(handles[h])]
  /\ panicking' = (panicking \/ Fired(handles, handles'))
  /\ UNCHANGED <<heap, refs, nreg, ended, slots, wlog, featureStd>>

\* Another failure of the client starts unwinding.
Panic ==
  /\ ~panicking
  /\ panicking' = TRUE
  /\ UNCHANGED <<heap, handles, refs, nreg, ended, slots, wlog, featureStd>>

\* ------------------------------------------------------- the specifications
HandleKinds == {"Loaned", "LoanedMut"}

SlotKinds == {"same", "option", "uninit"}

\* Loans of boxes, their references and their destinations.
Next ==
  \/ \E kind \in HandleKinds, v \in Val : Loan(kind, "box", v)
  \/ \E kind \in HandleKinds : New(kind, "box", 0)
  \/ \E h \in Hid, t \in Region : Borrow(h, t)
  \/ \E r \in refs, op \in Ops : WriteRef(r, op)
  \/ \E t \in Region : EndRegion(t)
  \/ \E kind \in SlotKinds, full \in BOOLEAN : NewSlot(kind, full, "box", 0)
  \/ \E h \in Hid, d \in Sid : Place(h, d)
  \/ \E h \in Hid : Take(h)
  \/ \E h \in Hid : DropMacro(h)
  \/ \E d \in Sid : DropSlot(d)
  \/ \E h \in Hid : DropHandle(h)

InitStd == Init /\ featureStd

Spec == InitStd /\ [][Next]_vars

\* The handles' life cycle and the destruction diagnostic, for every kind of
\* container and both builds.
Fields == [1..Arity -> FieldKinds]

Assignments == [1..Arity -> Hid \cup {0}]

NextDiag ==
  \/ \E kind \in HandleKinds, k \in Kinds : Loan(kind, k, 0)
  \/ \E t \in Region : EndRegion(t)
  \/ \E kind \in SlotKinds, full \in BOOLEAN : NewSlot(kind, full, "box", 0)
  \/ \E h \in Hid, d \in Sid : Place(h, d)
  \/ \E h \in Hid : Take(h)
  \/ \E h \in Hid : DropMacro(h)
  \/ \E h \in Hid : Convert(h)
  \/ \E kind \in HandleKinds, ks \in Fields, asg \in Assignments : Merge(kind, ks, asg)
  \/ \E d \in Sid : DropSlot(d)
  \/ \E h \in Hid : DropHandle(h)
  \/ Panic

SpecDiag == Init /\ [][NextDiag]_vars

\* Merging loans of boxes while their references are in use.
NextMerge ==
  \/ \E kind \in HandleKinds, v \in Val : Loan(kind, "box", v)
  \/ \E r \in refs, op \in Ops : WriteRef(r, op)
  \/ \E t \in Region : EndRegion(t)
  \/ \E kind \in HandleKinds, ks \in Fields, asg \in Assignments : Merge(kind, ks, asg)
  \/ \E kind \in {"option", "uninit"} : NewSlot(kind, FALSE, "box", 0)
  \/ \E h \in Hid, d \in Sid : Place(h, d)
  \/ \E h \in Hid : Take(h)

SpecMerge == InitStd /\ [][NextMerge]_vars

\* Loans of the parts of one aggregate.
NextLoanWith ==
  \/ \E kind \in HandleKinds, vs \in [1..Arity -> Val], ms \in [1..Arity -> Modes] :
       LoanWith(kind, vs, ms)
  \/ \E r \in refs, op \in Ops : WriteRef(r, op)
  \/ \E t \in Region : EndRegion(t)
  \/ \E kind \in {"option", "uninit"} : NewSlot(kind, FALSE, "box", 0)
  \/ \E h \in Hid, d \in Sid : Place(h, d)
  \/ \E h \in Hid : Take(h)
  \/ \E d \in Sid : DropSlot(d)

SpecLoanWith == InitStd /\ [][NextLoanWith]_vars

\* Collections of loans turned into loans of collections.
HandleSeqs == UNION {[1..n -> Hid] : n \in 1..Arity}

TupleFields == [i \in 1..Arity |-> "uninit"]

NextFrom ==
  \/ \E kind \in HandleKinds, v \in Val : Loan(kind, "box", v)
  \/ \E r \in refs, op \in Ops : WriteRef(r, op)
  \/ \E t \in Region : EndRegion(t)
  \/ \E kind \in HandleKinds, coll \in Collections, hs \in HandleSeqs :
       Handle_from(kind, coll, hs)
  \/ \E kind \in HandleKinds, asg \in Assignments : Merge(kind, TupleFields, asg)
  \/ \E h \in Hid : Take(h)
  \/ \E h \in Hid : DropHandle(h)

SpecFrom == InitStd /\ [][NextFrom]_vars

\* Every operation that makes, combines or ends a handle, with destinations
\* that own what they hold (a T, an Option<T>).
NextOwn ==
  \/ \E kind \in HandleKinds : Loan(kind, "box", 0)
  \/ \E kind \in HandleKinds : New(kind, "box", 0)
  \/ \E kind \in HandleKinds, ms \in [1..Arity -> Modes] :
       LoanWith(kind, [i \in 1..Arity |-> 0], ms)
  \/ \E kind \in HandleKinds, ks \in Fields, asg \in Assignments : Merge(kind, ks, asg)
  \/ \E kind \in HandleKinds, coll \in Collections, hs \in HandleSeqs :
       Handle_from(kind, coll, hs)
  \/ \E h \in Hid : Convert(h)
  \/ \E t \in Region : EndRegion(t)
  \/ \E kind \in {"same", "option"}, full \in BOOLEAN : NewSlot(kind, full, "box", 0)
  \/ \E h \in Hid, d \in Sid : Place(h, d)
  \/ \E h \in Hid : Take(h)
  \/ \E h \in Hid : DropMacro(h)
  \/ \E d \in Sid : DropSlot(d)

SpecOwn == InitStd /\ [][NextOwn]_vars

\* ---------------------------------------------------------------- claims
LogOf(o) == IF o \in Oid THEN wlog[o] ELSE <<>>

\* The payload val as its creation values with the writes made through the
\* references minted from its handles applied in order.
Expected(val) ==
  [i \in 1..Len(val) |-> ApplyOps(heap[val[i].a].v0, LogOf(val[i].o), 1)]

\* The destinations a handle made by LoanedMut::loan was placed into and
\* that can be read again (the region of the placement has ended).
ReadableMutPlacements ==
  {d \in Sid : /\ slots[d].st = "live" /\ slots[d].full
               /\ slots[d].src # 0 /\ slots[d].lock \subseteq ended
               /\ handles[slots[d].src].kind = "LoanedMut"
               /\ handles[slots[d].src].rg # {}}

\* C1: whenever a reference minted by loan or borrow is still usable (its
\* region has not ended), the pointee it points into has not been destroyed,
\* wherever the payload is now (in the handle, in an aggregate, in a
\* destination).
C1_UsableRefPointeeNotDestroyed ==
  \A r \in refs : r.rg \notin ended => heap[r.a].st # "freed"

\* C2: after LoanedMut::loan(v) and the placement of the handle into d, what
\* is read from d once the region has ended is v with exactly the writes made
\* through the reference applied in order, those made after the placement
\* included.
C2_PlacedValueIsWrites ==
  \A d \in ReadableMutPlacements :
    Read(heap, slots[d].val) = Expected(handles[slots[d].src].val)

C2_Witness ==
  \E d \in ReadableMutPlacements :
    /\ slots[d].at = 1
    /\ Len(wlog[slots[d].src]) = 2
    /\ Read(heap, slots[d].val) # <<heap[slots[d].val[1].a].v0>>
    /\ Read(heap, slots[d].val) # <<ApplyOps(heap[slots[d].val[1].a].v0,
                                            SubSeq(wlog[slots[d].src], 1, 1), 1)>>

\* C3: take! of a handle made by loan(v) returns v, with the writes made
\* through the minted reference before the take applied.
C3_TakeReturnsPayload ==
  [][\A h \in Hid :
       handles[h].st = "live" /\ handles'[h].how = "take"
         => handles'[h].ret = Expected(handles[h].val)]_vars

C3_Witness ==
  \E h \in Hid :
    /\ handles[h].how = "take" /\ handles[h].rg # {}
    /\ Len(wlog[h]) > 0
    /\ handles[h].ret # <<heap[handles[h].val[1].a].v0>>

\* C4: a handle goes Created -> Placed or Created -> Destroyed without
\* placement and nowhere else; both are final, and a handle whose payload was
\* moved out (by place, take!, drop!, merge or a conversion) never fires the
\* destruction diagnostic.
C4_HandleStateMachine ==
  [][\A h \in Hid :
       /\ handles[h].st = "none" => handles'[h].st \in {"none", "live"}
       /\ handles[h].st = "live" => handles'[h].st \in {"live", "consumed", "dropped"}
       /\ handles[h].st \in {"consumed", "dropped"} => handles'[h] = handles[h]
       /\ handles'[h].st = "consumed" => ~handles'[h].diag]_vars

C4_Witness ==
  \E h, g \in Hid :
    /\ handles[h].st = "consumed" /\ handles[h].how = "merge"
    /\ needs_drop(handles[h].val) /\ ~handles[h].diag
    /\ handles[g].st = "dropped" /\ handles[g].diag

C6_NoDiagnosticForMayLeak ==
  \A h \in Hid :
    (\A i \in 1..Len(handles[h].val) : handles[h].val[i].k \in {"leak", "ref"})
      => ~handles[h].diag

C6_Witness ==
  \E h, g \in Hid :
    /\ handles[h].st = "dropped" /\ handles[h].val[1].k = "leak"
    /\ handles[g].st = "dropped" /\ handles[g].val[1].k = "ref"
    /\ ~panicking

\* C7: while the thread is unwinding, the destruction of a handle fires no
\* diagnostic.
C7_NoDiagnosticWhileUnwinding ==
  [][panicking => \A h \in Hid : handles'[h].diag = handles[h].diag]_vars

C7_Witness ==
  \E h \in Hid :
    /\ handles[h].st = "dropped" /\ needs_drop(handles[h].val)
    /\ handles[h].kind = "LoanedMut" /\ ~handles[h].diag

\* A step that places the handle h into the destination d.
PlacementStep(h, d) ==
  /\ handles[h].st = "live" /\ handles'[h].how = "place"
  /\ slots'[d] # slots[d]

\* The cleanup of the payload val runs exactly once in the step, and no
\* other cleanup runs.
CleansUpOnly(val) ==
  \A a \in Addr :
    IF \E i \in 1..Len(val) : val[i].a = a /\ val[i].k = "box"
      THEN heap'[a].drops = heap[a].drops + 1 /\ heap'[a].st = "freed"
      ELSE heap'[a] = heap[a]

\* C8: placing into a same-type slot that holds old runs old's cleanup
\* exactly once, the delivered payload's cleanup not at all, and leaves the
\* slot holding exactly the delivered payload.
C8_PlaceSameSlot ==
  [][\A h \in Hid, d \in Sid :
       PlacementStep(h, d) /\ slots[d].kind = "same"
         => /\ CleansUpOnly(slots[d].val)
            /\ slots'[d].val = handles[h].val
            /\ slots'[d].kind = "same" /\ slots'[d].full]_vars

C8_Witness ==
  \E d \in Sid :
    /\ slots[d].st = "live" /\ slots[d].kind = "same" /\ slots[d].src # 0
    /\ heap[slots[d].old[1].a].drops = 1
    /\ heap[slots[d].val[1].a].st = "live"
    /\ slots[d].old[1].o # 0

\* C9: placing into an optional slot destroys the previous occupant exactly
\* once when there is one and nothing when there is none, and leaves the slot
\* holding Some(delivered payload).
C9_PlaceOptionSlot ==
  [][\A h \in Hid, d \in Sid :
       PlacementStep(h, d) /\ slots[d].kind = "option"
         => /\ IF slots[d].full THEN CleansUpOnly(slots[d].val) ELSE heap' = heap
            /\ slots'[d].val = handles[h].val
            /\ slots'[d].kind = "option" /\ slots'[d].full]_vars

C9_Witness ==
  \E d \in Sid :
    /\ slots[d].st = "live" /\ slots[d].kind = "option" /\ slots[d].src # 0
    /\ slots[d].oldFull /\ heap[slots[d].old[1].a].drops = 1
    /\ heap[slots[d].val[1].a].st = "live"

C9_WitnessNone ==
  \E d \in Sid :
    /\ slots[d].st = "live" /\ slots[d].kind = "option" /\ slots[d].src # 0
    /\ ~slots[d].oldFull /\ slots[d].full

\* The handles made by merge.
Merged ==
  {g \in Hid : /\ handles[g].st # "none"
               /\ \A i \in 1..Len(handles[g].val) : handles[g].val[i].o # g}

\* C10: after the merge of h1 and h2 (payloads p1, p2, references r1, r2)
\* into h, r1 and r2 are still valid and each points into its own component,
\* and h, wherever it is placed or when it is taken, yields the aggregate of
\* p1 and p2 with the writes made through r1 and r2 applied, each to its own
\* component.
C10_MergeIndependence ==
  \A g \in Merged :
    /\ \A r \in refs : \A i \in 1..Len(handles[g].val) :
         r.o = handles[g].val[i].o
           => r.a = handles[g].val[i].a /\ heap[r.a].st = "live"
    /\ handles[g].st = "live" => Read(heap, handles[g].val) = Expected(handles[g].val)
    /\ handles[g].how = "take" => handles[g].ret = Expected(handles[g].val)
    /\ \A d \in Sid :
         slots[d].st = "live" /\ slots[d].src = g
           => Read(heap, slots[d].val) = Expected(handles[g].val)

C10_Witness ==
  \E g \in Merged :
    /\ handles[g].how = "take" /\ handles[g].born = 0
    /\ Len(handles[g].val) = 2
    /\ \A i \in 1..2 : /\ Len(LogOf(handles[g].val[i].o)) = 1
                       /\ handles[g].ret[i] # heap[handles[g].val[i].a].v0

\* The handles made by loan_with.
LoanedWith ==
  {h \in Loans : \E i \in 1..Len(handles[h].val) :
                   i > 1 /\ handles[h].val[i].o = PartOrigin(h, i)}

\* C11: loan_with over one aggregate returns a single handle over the whole
\* aggregate and references into disjoint parts of it; the handle, where it is
\* placed or when it is taken, yields the aggregate with the writes made
\* through each reference applied to that reference's part only.
C11_LoanWithParts ==
  \A h \in LoanedWith :
    /\ \A i, j \in 1..Len(handles[h].val) :
         i # j => handles[h].val[i].a # handles[h].val[j].a
    /\ \A r \in refs : \A i \in 1..Len(handles[h].val) :
         r.o = handles[h].val[i].o => r.a = handles[h].val[i].a
    /\ \A g \in Hid \ {h} : AddrsOf(handles[g].val) \cap AddrsOf(handles[h].val) = {}
    /\ handles[h].st = "live" => Read(heap, handles[h].val) = Expected(handles[h].val)
    /\ handles[h].how = "take" => handles[h].ret = Expected(handles[h].val)
    /\ \A d \in Sid :
         slots[d].st = "live" /\ slots[d].src = h
           => Read(heap, slots[d].val) = Expected(handles[h].val)

C11_Witness ==
  \E h \in LoanedWith :
    /\ handles[h].how = "take"
    /\ \A i \in 1..Arity : /\ Len(LogOf(handles[h].val[i].o)) = 1
                           /\ handles[h].ret[i] # heap[handles[h].val[i].a].v0

C11_WitnessPlaced ==
  \E h \in LoanedWith, d \in Sid :
    /\ slots[d].st = "live" /\ slots[d].src = h /\ slots[d].at = 0
    /\ \A i \in 1..Arity : Len(LogOf(handles[h].val[i].o)) = 1

\* C12: drop! is possible only once the region of the handle has ended; it
\* consumes the handle, runs the cleanup of the owned payload exactly once
\* (and no other cleanup), and fires no diagnostic.
C12_DropMacro ==
  [][\A h \in Hid :
       handles[h].st = "live" /\ handles'[h].how = "drop"
         => /\ handles[h].rg \subseteq ended
            /\ handles'[h].st = "consumed" /\ ~handles'[h].diag
            /\ ~panicking'
            /\ CleansUpOnly(handles[h].val)]_vars

C12_Witness ==
  \E h \in Hid :
    /\ handles[h].how = "drop" /\ handles[h].rg # {}
    /\ Len(wlog[h]) > 0
    /\ heap[handles[h].val[1].a].st = "freed"
    /\ heap[handles[h].val[1].a].drops = 1

\* The handles a step turns into one handle over a collection.
Constituents ==
  {h \in Hid : handles[h].st = "live" /\ handles'[h].how \in {"from", "merge"}}

\* The payloads of the constituents at the positions i..n of the collection.
RECURSIVE InOrder(_, _)
InOrder(i, n) ==
  IF i > n THEN <<>>
  ELSE LET h == CHOOSE x \in Constituents : handles'[x].idx = i
       IN handles[h].val \o InOrder(i + 1, n)

\* C13: the conversion of a collection (array, Vec, Box, tuple) of handles
\* into one handle over the collection of the payloads keeps every payload at
\* its position with its value unchanged, runs no cleanup, fires no
\* diagnostic for the constituent handles, and leaves exactly one handle
\* owning all the payloads.
C13_CollectionOfHandles ==
  [][Constituents # {} =>
       LET n == Cardinality(Constituents)
       IN /\ \A i \in 1..n : \E h \in Constituents : handles'[h].idx = i
          /\ \A h \in Constituents :
               handles'[h].st = "consumed" /\ ~handles'[h].diag
          /\ ~panicking'
          /\ \A a \in Addr : heap[a].st # "free" => heap'[a] = heap[a]
          /\ \E g \in Hid :
               /\ handles[g].st = "none" /\ handles'[g].st = "live"
               /\ \E buf \in {<<>>} \cup {<<Comp("box", a, 0)>> :
                                          a \in {b \in Addr : heap[b].st = "free"}} :
                    handles'[g].val = buf \o InOrder(1, n)
               /\ \A h \in Hid \ {g} :
                    handles'[h].st = "live"
                      => AddrsOf(handles'[h].val) \cap AddrsOf(handles'[g].val) = {}]_vars

\* An array or a Vec of two loans whose pointees were written was converted.
C13_Witness ==
  \E g, h1, h2 \in Hid :
    /\ handles[g].st = "live"
    /\ handles[h1].how = "from" /\ handles[h1].idx = 1
    /\ handles[h2].how = "from" /\ handles[h2].idx = 2
    /\ h2 < h1
    /\ Len(wlog[h1]) > 0 /\ Len(wlog[h2]) > 0
    /\ handles[g].val \in {handles[h1].val \o handles[h2].val,
                           <<handles[g].val[1]>> \o handles[h1].val \o handles[h2].val}

C13_WitnessTuple ==
  \E g, h1, h2 \in Hid :
    /\ handles[g].st = "live"
    /\ handles[h1].how = "merge" /\ handles[h1].idx = 1
    /\ handles[h2].how = "merge" /\ handles[h2].idx = 2
    /\ handles[g].val = handles[h1].val \o handles[h2].val

C13_WitnessBox ==
  \E g, h1 \in Hid :
    /\ handles[g].st = "live" /\ handles[h1].how = "from"
    /\ Len(handles[g].val) = 2 /\ handles[g].val[1].o = 0
    /\ handles[g].val[2] = handles[h1].val[1]

\* C14: borrow on a Loaned leaves the handle as it is and returns a
\* reference to the pointee that the reference minted by loan and the reads
\* through the handle see: a read through the handle sees the updates made
\* through all of them.
C14_BorrowSamePointee ==
  /\ [](\A h \in Hid :
          handles[h].st = "live" /\ handles[h].kind = "Loaned"
            => /\ Read(heap, handles[h].val) = Expected(handles[h].val)
               /\ \A r \in refs : \A i \in 1..Len(handles[h].val) :
                    r.o = handles[h].val[i].o => r.a = handles[h].val[i].a)
  /\ [][refs' # refs /\ nreg' = nreg /\ ended' = ended
          => handles' = handles /\ heap' = heap]_vars

\* A Loaned made by loan was borrowed from, two updates were made, and the
\* handle was then placed; the destination holds the updated pointee.
C14_Witness ==
  \E h \in Hid, d \in Sid, r1, r2 \in refs :
    /\ handles[h].kind = "Loaned" /\ handles[h].how = "place"
    /\ r1.o = h /\ r2.o = h /\ r1.rg \in handles[h].rg /\ r2.rg \notin handles[h].rg
    /\ slots[d].src = h /\ slots[d].at = 2
    /\ Len(wlog[h]) = 2

\* The references minted by loan (in the region the handle was made for)
\* that are still usable.
LoanRefs == {r \in refs : r.o \in Hid /\ r.rg \in handles[r.o].rg}

\* C15 as claimed: the reference minted by loan is usable only while the
\* handle has not been placed, and a handle is placed only once its region
\* has ended.
C15_UsableUntilPlaced ==
  /\ [](\A r \in LoanRefs : handles[r.o].how # "place")
  /\ [][\A h \in Hid, d \in Sid :
          PlacementStep(h, d) => handles[h].rg \subseteq ended]_vars

\* C15 as amended: the reference minted by loan is usable, its pointee alive,
\* for the whole of the region, whether the handle has been placed or not;
\* a handle can be placed while the region lasts, and the placement borrows
\* the destination for the region: the destination is left alone until the
\* region has ended.
C15_UsableForRegion ==
  /\ [](\A r \in LoanRefs :
          /\ heap[r.a].st = "live"
          /\ \A d \in Sid : slots[d].st = "live" /\ slots[d].src = r.o
                              => r.rg \in slots[d].lock)
  /\ [][\A h \in Hid, d \in Sid :
          PlacementStep(h, d) => slots'[d].lock = handles[h].rg]_vars
  /\ [][\A d \in Sid :
          slots[d].st = "live" /\ ~(slots[d].lock \subseteq ended)
            => slots'[d] = slots[d]]_vars

\* A handle was placed while its region lasted and a write was made through
\* the loan's reference afterwards.
C15_Witness ==
  \E r \in LoanRefs, d \in Sid :
    /\ handles[r.o].how = "place" /\ slots[d].src = r.o
    /\ slots[d].at < Len(wlog[r.o])
    /\ Read(heap, slots[d].val) # <<heap[r.a].v0>>

\* A step that converts the Loaned h into a LoanedMut.
ConversionStep(h) == handles[h].st = "live" /\ handles'[h].how = "into"

\* C16 as claimed: a Loaned is converted into a LoanedMut only once its
\* region has ended.
C16_ConvertAfterRegion ==
  [][\A h \in Hid : ConversionStep(h) => handles[h].rg \subseteq ended]_vars

\* C16 as amended: a Loaned can be converted into a LoanedMut at any time,
\* also while its region lasts; the conversion consumes the Loaned without
\* diagnostic and the LoanedMut has the same payload, unchanged, and the same
\* region.
C16_ConvertKeepsRegion ==
  [][\A h \in Hid :
       ConversionStep(h)
         => /\ handles[h].kind = "Loaned"
            /\ handles'[h].st = "consumed" /\ ~handles'[h].diag
            /\ heap' = heap /\ refs' = refs
            /\ \E g \in Hid :
                 /\ handles[g].st = "none" /\ handles'[g].st = "live"
                 /\ handles'[g].kind = "LoanedMut"
                 /\ handles'[g].val = handles[h].val
                 /\ handles'[g].rg = handles[h].rg
                 /\ \A x \in Hid \ {h, g} : handles'[x] = handles[x]]_vars

\* A Loaned was converted while the reference minted by its loan is usable.
C16_Witness ==
  \E h, g \in Hid, r \in refs :
    /\ handles[h].how = "into" /\ needs_drop(handles[h].val)
    /\ r.o = h /\ r.rg \in handles[h].rg /\ r.rg \notin ended
    /\ handles[g].st = "live" /\ handles[g].kind = "LoanedMut"
    /\ handles[g].val = handles[h].val /\ handles[g].rg = handles[h].rg

\* The holders of the pointee a: the live handles (an aggregate is the payload
\* of its handle), the destinations, and the plain values take! returned.
HandleOwners(a) ==
  {h \in Hid : handles[h].st = "live" /\ a \in AddrsOf(handles[h].val)}

SlotOwners(a) ==
  {d \in Sid : slots[d].st = "live" /\ slots[d].full /\ a \in AddrsOf(slots[d].val)}

TakenOwners(a) ==
  {h \in Hid : handles[h].how = "take" /\ a \in AddrsOf(handles[h].val)}

Owners(a) ==
  Cardinality(HandleOwners(a)) + Cardinality(SlotOwners(a))
    + Cardinality(TakenOwners(a))

MergeStep(g) ==
  /\ handles[g].st = "none" /\ handles'[g].st = "live"
  /\ \E h \in Constituents : handles'[h].how = "merge"

====
